---- MODULE Spec2Model ----
(***************************************************************************)
(* A model of ussimo-server: WooCommerce orders are turned into Merit      *)
(* Aktiva invoices.                                                        *)
(*                                                                         *)
(*   Spec       the WooCommerce routes in any interleaving: order webhook, *)
(*              manual create-invoice, auto-sync start/stop, the bulk run  *)
(*              and the periodic runs (routes/woocommerce.js,              *)
(*              services/merit.js)                                         *)
(*   SchedSpec  scheduler.js in any interleaving: the cron job and         *)
(*              POST /api/woocommerce-sync entering syncOrdersToInvoices   *)
(*   SeqSpec    all of these handlers, one invocation after the other      *)
(*   ReconSpec  createInvoiceFromWooCommerceOrder applied to an order:     *)
(*              the invoice rows and the reconciliation of the totals      *)
(*                                                                         *)
(* Every action is one synchronous stretch of JavaScript: from the point   *)
(* where a handler is entered or resumed after an await up to the next     *)
(* await that reaches the network (axios, the WooCommerce client) or a     *)
(* timer.  Node runs such a stretch without interleaving.                   *)
(*                                                                         *)
(* Time is counted in order creations: the instant `new Date()` is the     *)
(* number of orders the store holds, and order i was created at instant i. *)
(* Money is counted in cents.                                              *)
(***************************************************************************)
EXTENDS Integers, Sequences, FiniteSets, TLC

\* ------------------------------------------------------------------ bounds
MaxOrders == 2      \* orders the store ever holds
MaxRuns == 2        \* handler invocations (bulk, periodic, webhook, manual)
BulkPerPage == 1    \* page size of the bulk listing (per_page: 100, scaled down)
NewPerPage == 2     \* page size of the periodic listing (per_page: 100, scaled down)
SyncPerPage == 2    \* page size of the scheduler's listing (the default, scaled down)
MaxSyncs == 3       \* syncOrdersToInvoices invocations
MaxLines == 2       \* line items of an order
MaxQuantity == 2    \* units of one line item

\* --------------------------------------------------------- program constants
StartInvoiceNo == 1000      \* getNextInvoiceNumber: '1000'
InvoiceListLimit == 1000    \* fetchMeritInvoices: limit: 1000
MaxPages == 10              \* page > 10
maxOrdersToProcess == 1000
soilRetailPrice == 215          \* 2.15
concentrateRetailPrice == 299   \* 2.99
DefaultBundlePrice == 820       \* 8.20
BundleName == "Toataimede Uus Algus"

Statuses == {"completed", "pending", "cancelled"}
validStatuses == {"completed", "processing"}

VARIABLES
    store,          \* WooCommerce: store[i] is the order with id i
    merit,          \* Merit Aktiva: the invoices it holds, oldest first
    autoSyncState,  \* routes/woocommerce.js: autoSyncState
    timers,         \* the setInterval timers that are active
    runs,           \* the handler invocations started so far
    isSyncing,      \* scheduler.js: isSyncing
    processedOrders,\* scheduler.js: processedOrders
    lastSyncTime,   \* scheduler.js: lastSyncTime (0 is null)
    syncs,          \* the syncOrdersToInvoices invocations started so far
    wooOrder,       \* the order handed to createInvoiceFromWooCommerceOrder
    sent,           \* what that call sent to Merit, or how it ended
    tieUp           \* which way toFixed(2) takes a product or quotient that is
                    \* a tie in decimal arithmetic

autoVars == <<merit, autoSyncState, timers, runs>>
schedVars == <<isSyncing, processedOrders, lastSyncTime, syncs>>
reconVars == <<wooOrder, sent, tieUp>>
vars == <<store, autoVars, schedVars, reconVars>>

\* ------------------------------------------------------------------ strings
DigitChars == <<"0", "1", "2", "3", "4", "5", "6", "7", "8", "9">>

IsDigit(c) == \E d \in 1..10 : DigitChars[d] = c

RECURSIVE toStr(_)
\* Number.prototype.toString of a non-negative integer
toStr(n) ==
    IF n < 10 THEN <<DigitChars[n + 1]>>
    ELSE Append(toStr(n \div 10), DigitChars[(n % 10) + 1])

\* `${first_name} ${last_name}` of the billing contact of order id
CustomerName(id) == <<"A", " ", "B">>

RECURSIVE DigitRun(_, _)
\* the longest run of digits of s that starts at position i
DigitRun(s, i) ==
    IF i <= Len(s) /\ IsDigit(s[i]) THEN <<s[i]>> \o DigitRun(s, i + 1) ELSE <<>>

\* `${wooOrder.billing.first_name} ${wooOrder.billing.last_name}`
BillingName(billing) == billing.first_name \o <<" ">> \o billing.last_name

\* a comment that puts the customer's name in front of the order number
HCommentNameFirst(id, customerName) ==
    <<"U", "s", "s", "i", "m", "o", " ", "\n">> \o customerName
        \o <<"\n", "#">> \o toStr(id)

\* HComment: `Ussimo \n#${wooOrder.id}\n${customerName}`
HCommentOf(id, customerName) ==
    <<"U", "s", "s", "i", "m", "o", " ", "\n", "#">> \o toStr(id)
        \o <<"\n">> \o customerName

\* the comment of the invoice of order id in the store
HComment(id) == HCommentOf(id, CustomerName(id))

\* the characters String.prototype.trim removes and \s matches
IsSpace(c) == c \in {" ", "\t", "\r", "\n"}

RECURSIVE TrimStart(_)
TrimStart(s) == IF s # <<>> /\ IsSpace(Head(s)) THEN TrimStart(Tail(s)) ELSE s

RECURSIVE TrimEnd(_)
TrimEnd(s) ==
    IF s # <<>> /\ IsSpace(s[Len(s)]) THEN TrimEnd(SubSeq(s, 1, Len(s) - 1)) ELSE s

\* String.prototype.trim
Trim(s) == TrimEnd(TrimStart(s))

RECURSIVE Split(_)
\* comment.split('\n')
Split(s) ==
    LET breaks == {i \in 1..Len(s) : s[i] = "\n"}
    IN  IF breaks = {} THEN <<s>>
        ELSE LET b == CHOOSE i \in breaks : \A j \in breaks : i <= j
             IN  <<SubSeq(s, 1, b - 1)>> \o Split(SubSeq(s, b + 1, Len(s)))

\* the lower-case form of the letters of 'Ussimo'
Lower(c) == IF c = "U" THEN "u" ELSE IF c = "S" THEN "s" ELSE IF c = "I" THEN "i"
            ELSE IF c = "M" THEN "m" ELSE IF c = "O" THEN "o" ELSE c

RECURSIVE SpaceRun(_, _)
\* the length of the run of white space of s that starts at position i
SpaceRun(s, i) == IF i <= Len(s) /\ IsSpace(s[i]) THEN 1 + SpaceRun(s, i + 1) ELSE 0

\* comment.match(/Ussimo\s+#\d+\s+(.+)/i) on a comment of one line: the
\* text behind the first 'Ussimo', white space, '#', digits and white space,
\* as <<text>>, or <<>> for no match
MatchOneLine(comment) ==
    LET word == <<"u", "s", "s", "i", "m", "o">>
        rest(p) == LET a == p + 6 + SpaceRun(comment, p + 6)
                   IN  SubSeq(comment, a + 1 + Len(DigitRun(comment, a + 1)), Len(comment))
        hits == {p \in 1..Len(comment) :
                    /\ p + 5 <= Len(comment)
                    /\ \A k \in 1..6 : Lower(comment[p + k - 1]) = word[k]
                    /\ SpaceRun(comment, p + 6) >= 1
                    /\ LET a == p + 6 + SpaceRun(comment, p + 6)
                       IN  /\ a <= Len(comment)
                           /\ comment[a] = "#"
                           /\ DigitRun(comment, a + 1) # <<>>
                    /\ Len(rest(p)) >= 2
                    /\ IsSpace(rest(p)[1])}
    IN  IF hits = {} THEN <<>>
        ELSE LET p == CHOOSE i \in hits : \A j \in hits : i <= j
                 r == rest(p)
                 \* \s+ gives back its last character when nothing follows it
                 n == IF SpaceRun(r, 1) = Len(r) THEN Len(r) - 1 ELSE SpaceRun(r, 1)
             IN  <<SubSeq(r, n + 1, Len(r))>>

\* extractCustomerNameFromHComment: the last line of a comment of three
\* lines or more, what follows 'Ussimo #<digits>' in a comment of one line,
\* the whole comment otherwise, trimmed; <<>> stands for null and for ''
extractCustomerNameFromHComment(comment) ==
    IF comment = <<>> THEN <<>>
    ELSE LET parts == Split(comment)
         IN  IF Len(parts) >= 3 THEN Trim(parts[Len(parts)])
             ELSE IF Len(parts) = 1
             THEN LET match == MatchOneLine(comment)
                  IN  IF match # <<>> THEN Trim(match[1]) ELSE Trim(comment)
             ELSE Trim(comment)

\* comment.match(/#(\d+)/): the digits after the first '#' that a digit
\* follows; <<>> stands for null
extractOrderNumberFromHComment(comment) ==
    LET hits == {i \in 1..Len(comment) :
                    /\ comment[i] = "#"
                    /\ i < Len(comment)
                    /\ IsDigit(comment[i + 1])}
    IN  IF hits = {} THEN <<>>
        ELSE LET first == CHOOSE i \in hits : \A j \in hits : i <= j
             IN  DigitRun(comment, first + 1)

\* ---------------------------------------------------------------- Merit API
SeqFilter(s, Keep(_)) ==
    LET F[i \in 0..Len(s)] ==
            IF i = 0 THEN <<>>
            ELSE IF Keep(s[i]) THEN Append(F[i - 1], s[i]) ELSE F[i - 1]
    IN  F[Len(s)]

Min(a, b) == IF a < b THEN a ELSE b

\* getInvoices: the 'Eraisik' invoices, first page of `limit`
getInvoices(list, limit) ==
    LET eraisik == SeqFilter(list, LAMBDA inv : inv.CustomerName = "Eraisik")
    IN  SubSeq(eraisik, 1, Min(limit, Len(eraisik)))

\* extractOrderIdsFromInvoices: the Set of order numbers found in the comments
extractOrderIdsFromInvoices(invoices) ==
    {extractOrderNumberFromHComment(invoices[i].HComment) : i \in DOMAIN invoices}
        \ {<<>>}

\* getNextInvoiceNumber on a successful lookup.  A numeric InvoiceNo is a
\* natural number; the tagged fallback `ERR${timestamp}` is -1.
ErrInvoiceNo == -1

\* a lookup that hands out the current maximum itself
getNextInvoiceNumberStale(list) ==
    LET numbers == {list[i].InvoiceNo : i \in DOMAIN list} \ {ErrInvoiceNo}
    IN  IF Len(list) = 0 \/ numbers = {} THEN StartInvoiceNo
        ELSE CHOOSE m \in numbers : \A n \in numbers : n <= m

getNextInvoiceNumber(list) ==
    LET numbers == {list[i].InvoiceNo : i \in DOMAIN list} \ {ErrInvoiceNo}
    IN  IF Len(list) = 0 \/ numbers = {} THEN StartInvoiceNo
        ELSE (CHOOSE m \in numbers : \A n \in numbers : n <= m) + 1

\* ------------------------------------------------------------ WooCommerce API
Now == Len(store)

\* The orders created after instant `after`, newest first: getOrders forwards
\* page, per_page, status, after and before only, so the storefront applies
\* its default ordering (date, descending).
OrdersAfter(after) == [k \in 1..(Len(store) - after) |-> Len(store) + 1 - k]

\* one page of a listing
PageOf(list, page, perPage) ==
    SubSeq(list, Min((page - 1) * perPage + 1, Len(list) + 1),
                 Min(page * perPage, Len(list)))

\* ------------------------------------------------------------------ the runs
NewRun(kind, pc) ==
    [kind |-> kind, pc |-> pc, existing |-> {}, after |-> 0, page |-> 1,
     all |-> <<>>, idx |-> 0, no |-> 0, processed |-> <<>>, err |-> "none"]

\* a finished invocation keeps its batch, the positions it processed and its
\* error; its other locals are dead
Done(run, err) ==
    [run EXCEPT !.pc = "done", !.err = err, !.existing = {}, !.after = 0,
                !.page = 1, !.idx = 0, !.no = 0]

Active(r) == runs[r].pc # "done"

IsBatch(r) == runs[r].kind \in {"bulk", "periodic"}

Init ==
    /\ store = <<>>
    /\ merit = <<>>
    /\ autoSyncState = [isRunning |-> FALSE, startOrderId |-> 0,
                        currentOrderId |-> 0, lastSyncTime |-> 0,
                        intervalId |-> 0]
    /\ timers = {}
    /\ runs = <<>>
    /\ isSyncing = FALSE
    /\ processedOrders = {}
    /\ lastSyncTime = 0
    /\ syncs = <<>>
    /\ wooOrder = <<>>
    /\ sent = <<>>
    /\ tieUp = TRUE

\* A customer places an order (or an order reaches the store in some status).
CreateOrder(status) ==
    /\ Len(store) < MaxOrders
    /\ store' = Append(store, [status |-> status])
    /\ UNCHANGED <<merit, autoSyncState, timers, runs>>
    /\ UNCHANGED <<schedVars, reconVars>>


RECURSIVE SortAsc(_)
\* allFilteredOrders.sort((a, b) => parseInt(a.id) - parseInt(b.id))
SortAsc(s) ==
    IF Len(s) <= 1 THEN s
    ELSE LET m == CHOOSE i \in DOMAIN s : \A j \in DOMAIN s : s[i] <= s[j]
             rest == [k \in 1..(Len(s) - 1) |-> IF k < m THEN s[k] ELSE s[k + 1]]
         IN  <<s[m]>> \o SortAsc(rest)

\* the loop without its duplicate check
NextIdxNoSkip(all, existing, k) == Min(k, Len(all) + 1)

\* the next order of the batch, from position k on, that has no invoice yet:
\* `if (existingOrderIds.has(order.id.toString())) continue;`
NextIdx(all, existing, k) ==
    LET todo == {j \in k..Len(all) : toStr(all[j]) \notin existing}
    IN  IF todo = {} THEN Len(all) + 1
        ELSE CHOOSE j \in todo : \A i \in todo : j <= i

\* The for loop of a batch run, entered or resumed at position k: it skips
\* the orders that have an invoice and runs createInvoiceFromWooCommerceOrder
\* for the next one up to its first await (getNextInvoiceNumber), or ends.
LoopFrom(run, k) ==
    LET j == NextIdx(run.all, run.existing, k)
    IN  IF j <= Len(run.all)
        THEN [run EXCEPT !.pc = "num", !.idx = j, !.no = 0, !.processed = Append(@, j)]
        ELSE Done(run, "none")

\* What follows the loop: the bulk run stamps lastSyncTime and its promise
\* resolves, so the .then of /auto-sync/start installs the periodic timer;
\* a periodic run stamps lastSyncTime.
AfterLoop(r, run, state) ==
    /\ runs' = [runs EXCEPT ![r] = run]
    /\ IF run.pc # "done"
       THEN /\ autoSyncState' = state
            /\ UNCHANGED timers
       ELSE IF run.kind = "bulk"
       THEN /\ autoSyncState' = [state EXCEPT !.lastSyncTime = Now, !.intervalId = r]
            /\ timers' = timers \cup {r}
       ELSE /\ autoSyncState' = [state EXCEPT !.lastSyncTime = Now]
            /\ UNCHANGED timers

StartsRun(run) ==
    /\ Len(runs) < MaxRuns
    /\ runs' = Append(runs, run)

\* POST /auto-sync/start, up to the first await of processBulkOrders
AutoSyncStart(startOrderId) ==
    /\ ~autoSyncState.isRunning
    /\ autoSyncState' = [autoSyncState EXCEPT !.isRunning = TRUE,
                                              !.startOrderId = startOrderId,
                                              !.currentOrderId = startOrderId,
                                              !.lastSyncTime = Now]
    /\ StartsRun(NewRun("bulk", "invoices"))
    /\ UNCHANGED <<store, merit, timers>>
    /\ UNCHANGED <<schedVars, reconVars>>

\* POST /auto-sync/stop
AutoSyncStop ==
    /\ autoSyncState.isRunning
    /\ timers' = IF autoSyncState.intervalId # 0
                 THEN timers \ {autoSyncState.intervalId} ELSE timers
    /\ autoSyncState' = [autoSyncState EXCEPT !.isRunning = FALSE, !.intervalId = 0]
    /\ UNCHANGED <<store, merit, runs>>
    /\ UNCHANGED <<schedVars, reconVars>>

\* a setInterval timer fires: processNewOrders up to its first await
TimerFires(t) ==
    /\ t \in timers
    /\ StartsRun(NewRun("periodic", "invoices"))
    /\ UNCHANGED <<store, merit, autoSyncState, timers>>
    /\ UNCHANGED <<schedVars, reconVars>>

\* fetchMeritInvoices resolves in a batch run
FetchInvoicesOk(r) ==
    /\ r \in DOMAIN runs
    /\ runs[r].pc = "invoices"
    /\ LET ids == extractOrderIdsFromInvoices(getInvoices(merit, InvoiceListLimit))
       IN  runs' = [runs EXCEPT ![r] =
               IF @.kind = "bulk"
               THEN [@ EXCEPT !.existing = ids, !.pc = "page"]
               ELSE [@ EXCEPT !.existing = ids, !.pc = "orders",
                              !.after = autoSyncState.lastSyncTime]]
    /\ UNCHANGED <<store, merit, autoSyncState, timers>>
    /\ UNCHANGED <<schedVars, reconVars>>

\* a run that logs the failure and goes on with an empty duplicate set
FetchInvoicesProceeds(r) ==
    /\ r \in DOMAIN runs
    /\ runs[r].pc = "invoices"
    /\ runs' = [runs EXCEPT ![r] =
           [@ EXCEPT !.err = "invoices",
                     !.pc = IF runs[r].kind = "bulk" THEN "page" ELSE "orders",
                     !.after = autoSyncState.lastSyncTime]]
    /\ UNCHANGED <<store, merit, autoSyncState, timers, schedVars, reconVars>>

\* fetchMeritInvoices rejects (the request fails, or getInvoices throws on a
\* response that is no array).  processBulkOrders rejects and the .catch of
\* /auto-sync/start logs and installs the timer; processNewOrders catches
\* and logs.
FetchInvoicesFails(r) ==
    /\ r \in DOMAIN runs
    /\ runs[r].pc = "invoices"
    /\ runs' = [runs EXCEPT ![r] = Done(@, "invoices")]
    /\ IF runs[r].kind = "bulk"
       THEN /\ autoSyncState' = [autoSyncState EXCEPT !.intervalId = r]
            /\ timers' = timers \cup {r}
       ELSE UNCHANGED <<autoSyncState, timers>>
    /\ UNCHANGED <<store, merit>>
    /\ UNCHANGED <<schedVars, reconVars>>

\* one pass of the while loop of processBulkOrders; ok = FALSE when getOrders
\* throws, which the loop catches
BulkPage(r, ok) ==
    /\ r \in DOMAIN runs
    /\ runs[r].kind = "bulk"
    /\ runs[r].pc = "page"
    /\ LET run == runs[r]
           orders == IF ok THEN PageOf(OrdersAfter(0), run.page, BulkPerPage) ELSE <<>>
           filtered == SeqFilter(orders, LAMBDA id :
                           /\ id >= autoSyncState.startOrderId
                           /\ store[id].status # "cancelled")
           all == run.all \o filtered
           page == IF Len(orders) = 0 THEN run.page ELSE run.page + 1
           hasMoreOrders ==
               /\ Len(orders) = BulkPerPage
               /\ ~(Len(all) >= maxOrdersToProcess \/ page > MaxPages)
       IN  IF hasMoreOrders
           THEN /\ runs' = [runs EXCEPT ![r] = [@ EXCEPT !.all = all, !.page = page]]
                /\ UNCHANGED <<autoSyncState, timers>>
           ELSE AfterLoop(r, LoopFrom([run EXCEPT !.all = SortAsc(all), !.page = page], 1),
                          autoSyncState)
    /\ UNCHANGED <<store, merit>>
    /\ UNCHANGED <<schedVars, reconVars>>

\* getOrders resolves in processNewOrders
NewOrdersOk(r) ==
    /\ r \in DOMAIN runs
    /\ runs[r].kind = "periodic"
    /\ runs[r].pc = "orders"
    /\ LET run == runs[r]
           orders == PageOf(OrdersAfter(run.after), 1, NewPerPage)
           validOrders == SeqFilter(orders, LAMBDA id : store[id].status # "cancelled")
       IN  AfterLoop(r, LoopFrom([run EXCEPT !.all = validOrders], 1), autoSyncState)
    /\ UNCHANGED <<store, merit>>
    /\ UNCHANGED <<schedVars, reconVars>>

\* getOrders rejects in processNewOrders: the outer catch logs
NewOrdersFails(r) ==
    /\ r \in DOMAIN runs
    /\ runs[r].kind = "periodic"
    /\ runs[r].pc = "orders"
    /\ runs' = [runs EXCEPT ![r] = Done(@, "orders")]
    /\ UNCHANGED <<store, merit, autoSyncState, timers>>
    /\ UNCHANGED <<schedVars, reconVars>>

\* a lookup whose failure ends createInvoiceFromWooCommerceOrder
GetNumberThrows(r, ok) ==
    /\ r \in DOMAIN runs
    /\ runs[r].pc = "num"
    /\ runs' = [runs EXCEPT ![r] =
           IF ok THEN [@ EXCEPT !.pc = "submit", !.no = getNextInvoiceNumber(merit)]
           ELSE Done(@, "create")]
    /\ UNCHANGED <<store, merit, autoSyncState, timers, schedVars, reconVars>>

\* getNextInvoiceNumber resolves (it never rejects); createInvoiceFromWooCommerceOrder
\* builds the invoice and calls createInvoice
GetNumber(r, ok) ==
    /\ r \in DOMAIN runs
    /\ runs[r].pc = "num"
    /\ runs' = [runs EXCEPT ![r] =
           [@ EXCEPT !.pc = "submit",
                     !.no = IF ok THEN getNextInvoiceNumber(merit) ELSE ErrInvoiceNo]]
    /\ UNCHANGED <<store, merit, autoSyncState, timers>>
    /\ UNCHANGED <<schedVars, reconVars>>

\* the invoice createInvoiceFromWooCommerceOrder sends for order id
Invoice(id, no, r) ==
    [InvoiceNo |-> no, CustomerName |-> "Eraisik", HComment |-> HComment(id), by |-> r]

\* sendinvoice succeeds
SubmitOk(r) ==
    /\ r \in DOMAIN runs
    /\ runs[r].pc = "submit"
    /\ LET run == runs[r]
           id == run.all[run.idx]
       IN  /\ merit' = Append(merit, Invoice(id, run.no, r))
           /\ IF run.kind \in {"bulk", "periodic"}
              THEN /\ runs' = [runs EXCEPT ![r] =
                          [@ EXCEPT !.pc = "delay", !.no = 0,
                                    !.existing = @ \cup {toStr(id)}]]
                   /\ autoSyncState' = [autoSyncState EXCEPT !.currentOrderId = id]
              ELSE /\ runs' = [runs EXCEPT ![r] = Done(@, "none")]
                   /\ UNCHANGED autoSyncState
    /\ UNCHANGED <<store, timers>>
    /\ UNCHANGED <<schedVars, reconVars>>

\* a loop without its inner try/catch: the failed order ends the run
SubmitFailsAborts(r) ==
    /\ r \in DOMAIN runs
    /\ runs[r].pc = "submit"
    /\ runs' = [runs EXCEPT ![r] = Done(@, "create")]
    /\ UNCHANGED <<store, merit, autoSyncState, timers, schedVars, reconVars>>

\* sendinvoice fails: createInvoiceFromWooCommerceOrder throws; a batch loop
\* catches, logs and goes on, a route answers 500
SubmitFails(r) ==
    /\ r \in DOMAIN runs
    /\ runs[r].pc = "submit"
    /\ IF runs[r].kind \in {"bulk", "periodic"}
       THEN AfterLoop(r, LoopFrom(runs[r], runs[r].idx + 1), autoSyncState)
       ELSE /\ runs' = [runs EXCEPT ![r] = Done(@, "create")]
            /\ UNCHANGED <<autoSyncState, timers>>
    /\ UNCHANGED <<store, merit>>
    /\ UNCHANGED <<schedVars, reconVars>>

\* the 500 ms pause after a created invoice ends
DelayEnds(r) ==
    /\ r \in DOMAIN runs
    /\ runs[r].pc = "delay"
    /\ AfterLoop(r, LoopFrom(runs[r], runs[r].idx + 1), autoSyncState)
    /\ UNCHANGED <<store, merit>>
    /\ UNCHANGED <<schedVars, reconVars>>

\* POST /webhook/order with the order as payload
Webhook(id) ==
    /\ id \in DOMAIN store
    /\ store[id].status \in validStatuses
    /\ StartsRun([NewRun("webhook", "num") EXCEPT !.all = <<id>>, !.idx = 1,
                                                  !.processed = <<1>>])
    /\ UNCHANGED <<store, merit, autoSyncState, timers>>
    /\ UNCHANGED <<schedVars, reconVars>>

\* POST /orders/:orderId/create-invoice, with the order in the body or not
ManualCreate(id, inBody) ==
    /\ id \in DOMAIN store
    /\ StartsRun([NewRun("manual", IF inBody THEN "num" ELSE "order")
                     EXCEPT !.all = <<id>>, !.idx = 1, !.processed = <<1>>])
    /\ UNCHANGED <<store, merit, autoSyncState, timers>>
    /\ UNCHANGED <<schedVars, reconVars>>

\* getOrderById settles in the manual route
ManualOrder(r, ok) ==
    /\ r \in DOMAIN runs
    /\ runs[r].kind = "manual"
    /\ runs[r].pc = "order"
    /\ runs' = [runs EXCEPT ![r] =
           IF ok THEN [@ EXCEPT !.pc = "num"] ELSE Done(@, "order")]
    /\ UNCHANGED <<store, merit, autoSyncState, timers>>
    /\ UNCHANGED <<schedVars, reconVars>>

\* ------------------------------------------------------------- scheduler.js
\* const results = { total, processed: 0, skipped: 0, failed: 0, succeeded: 0 }
NoResults == [total |-> 0, processed |-> 0, skipped |-> 0, failed |-> 0, succeeded |-> 0]

\* An invocation of syncOrdersToInvoices: where it stands (pc), how it ended
\* (status), its window, the orders getOrders returned, the position of the
\* order in flight, the positions it attempted and its results.
NewSync(pc, status, after, before) ==
    [pc |-> pc, status |-> status, after |-> after, before |-> before,
     orders |-> <<>>, idx |-> 0, attempted |-> <<>>, results |-> NoResults]

\* a settled invocation keeps its orders, the positions attempted and its
\* results; its other locals are dead
Settled(sync, status) ==
    [sync EXCEPT !.pc = "done", !.status = status, !.after = 0, !.before = 0, !.idx = 0]

InBody(s) == syncs[s].pc # "done"

\* The orders getOrders({after, before, status: 'completed'}) returns: the
\* first page of the storefront's default listing (newest first).
CompletedBetween(after, before) ==
    PageOf(SeqFilter(OrdersAfter(after), LAMBDA id :
               id <= before /\ store[id].status = "completed"), 1, SyncPerPage)

\* the for loop of syncOrdersToInvoices, entered or resumed at position k:
\* orders in processedOrders are counted as skipped; for the next other one
\* getOrderById is awaited; after the last one the results are returned
SyncLoopFrom(sync, k, seen) ==
    LET todo == {j \in k..Len(sync.orders) : sync.orders[j] \notin seen}
        j == IF todo = {} THEN Len(sync.orders) + 1
             ELSE CHOOSE m \in todo : \A i \in todo : m <= i
        counted == [sync EXCEPT !.results.skipped = @ + (j - k)]
    IN  IF j <= Len(sync.orders)
        THEN [counted EXCEPT !.pc = "detail", !.idx = j, !.attempted = Append(@, j)]
        ELSE Settled(counted, "completed")

\* what the end of an invocation does to the module state: `lastSyncTime =
\* new Date()` when the loop ended, and the finally block
SyncEnds(s, sync) ==
    /\ syncs' = [syncs EXCEPT ![s] = sync]
    /\ IF sync.pc = "done"
       THEN /\ isSyncing' = FALSE
            /\ lastSyncTime' = IF sync.status = "completed" THEN Now ELSE lastSyncTime
       ELSE UNCHANGED <<isSyncing, lastSyncTime>>

\* syncOrdersToInvoices without its guard
syncOrdersToInvoicesUnguarded(after) ==
    /\ Len(syncs) < MaxSyncs
    /\ syncs' = Append(syncs, NewSync("orders", "running", after, Now))
    /\ isSyncing' = TRUE
    /\ UNCHANGED <<store, autoVars, processedOrders, lastSyncTime, reconVars>>

\* syncOrdersToInvoices(fromDate, toDate) up to its first await.  The guard
\* returns from inside the try block, so the finally block runs for the
\* skipped request as well.
syncOrdersToInvoices(after) ==
    /\ Len(syncs) < MaxSyncs
    /\ IF isSyncing
       THEN /\ syncs' = Append(syncs, Settled(NewSync("done", "skipped", 0, 0), "skipped"))
            /\ isSyncing' = FALSE
       ELSE /\ syncs' = Append(syncs, NewSync("orders", "running", after, Now))
            /\ isSyncing' = TRUE
    /\ UNCHANGED <<store, autoVars, processedOrders, lastSyncTime, reconVars>>

\* the cron job fires: the window is the last 24 hours
CronTick(after) ==
    /\ after \in 0..Now
    /\ syncOrdersToInvoices(after)

\* POST /api/woocommerce-sync: the window is the last `days` days
ManualSync(after) ==
    /\ after \in 0..Now
    /\ syncOrdersToInvoices(after)

\* getOrders resolves in syncOrdersToInvoices
SyncOrdersOk(s) ==
    /\ s \in DOMAIN syncs
    /\ syncs[s].pc = "orders"
    /\ LET orders == CompletedBetween(syncs[s].after, syncs[s].before)
           sync == [syncs[s] EXCEPT !.orders = orders, !.results.total = Len(orders)]
       IN  SyncEnds(s, SyncLoopFrom(sync, 1, processedOrders))
    /\ UNCHANGED <<store, autoVars, processedOrders, reconVars>>

\* getOrders rejects: the outer catch logs and rethrows, the finally block runs
SyncOrdersFails(s) ==
    /\ s \in DOMAIN syncs
    /\ syncs[s].pc = "orders"
    /\ SyncEnds(s, Settled(syncs[s], "failed"))
    /\ UNCHANGED <<store, autoVars, processedOrders, reconVars>>

\* a loop whose catch block counts the failure and not the attempt
SyncOrderDetailMiscounts(s, ok) ==
    /\ s \in DOMAIN syncs
    /\ syncs[s].pc = "detail"
    /\ LET sync == syncs[s]
           id == sync.orders[sync.idx]
           seen == IF ok THEN processedOrders \cup {id} ELSE processedOrders
           counted == IF ok
                      THEN [sync EXCEPT !.results.succeeded = @ + 1,
                                        !.results.processed = @ + 1]
                      ELSE [sync EXCEPT !.results.failed = @ + 1]
       IN  /\ processedOrders' = seen
           /\ SyncEnds(s, SyncLoopFrom(counted, sync.idx + 1, seen))
    /\ UNCHANGED <<store, autoVars, reconVars>>

\* getOrderById settles for the order in flight; when it resolves the order
\* is transformed and marked as processed, when it rejects (or the
\* transformation throws) the inner catch counts a failure; the loop goes on
SyncOrderDetail(s, ok) ==
    /\ s \in DOMAIN syncs
    /\ syncs[s].pc = "detail"
    /\ LET sync == syncs[s]
           id == sync.orders[sync.idx]
           seen == IF ok THEN processedOrders \cup {id} ELSE processedOrders
           counted == IF ok
                      THEN [sync EXCEPT !.results.succeeded = @ + 1,
                                        !.results.processed = @ + 1]
                      ELSE [sync EXCEPT !.results.failed = @ + 1,
                                        !.results.processed = @ + 1]
       IN  /\ processedOrders' = seen
           /\ SyncEnds(s, SyncLoopFrom(counted, sync.idx + 1, seen))
    /\ UNCHANGED <<store, autoVars, reconVars>>

\* ------------------------------------------------- services/merit.js: rows
\* parseFloat((n / d).toFixed(2)) in cents, for d > 0.  toFixed rounds the
\* binary floating point value to the nearest cent; a value that is a tie in
\* decimal arithmetic lies on either side of it in binary, so ties go the
\* way `up` says.
Round(n, d, up) ==
    LET a == IF n < 0 THEN -n ELSE n
        q == a \div d
        r == a % d
        m == IF 2 * r > d \/ (2 * r = d /\ up) THEN q + 1 ELSE q
    IN  IF n < 0 THEN -m ELSE m

\* a field of an API object: <<>> when it is missing, <<v>> when it holds v
Has(field) == field # <<>>

VatPct == 22

\* getVATTaxId(): the one tax class every row is given
vatTaxId == "vat22"

\* an invoice row; Price is in cents, as its two-decimal string says
Row(code, quantity, price) ==
    [Code |-> code, Quantity |-> quantity, Price |-> price, TaxId |-> vatTaxId]

\* the pre-tax price of the whole 'Toataimede Uus Algus' package
BundleTotalPrice(item, pit, up) ==
    IF Has(item.total)
    THEN IF Has(item.total_tax) THEN item.total[1] - item.total_tax[1]
         ELSE IF pit THEN Round(item.total[1] * 100, 100 + VatPct, up)
         ELSE item.total[1]
    ELSE IF Has(item.subtotal)
    THEN IF Has(item.subtotal_tax) THEN item.subtotal[1] - item.subtotal_tax[1]
         ELSE IF pit THEN Round(item.subtotal[1] * 100, 100 + VatPct, up)
         ELSE item.subtotal[1]
    ELSE IF Has(item.price) /\ item.price[1] # 0
    THEN (IF pit THEN Round(item.price[1] * 100, 100 + VatPct, up) ELSE item.price[1])
             * item.quantity
    ELSE DefaultBundlePrice * item.quantity

\* The two rows that replace a 'Toataimede Uus Algus' item: 4 soil and 2
\* concentrate per package, their retail prices scaled by the discount
\* factor, the remaining difference spread over the soil units.
BundleRows(item, pit, up) ==
    LET quantity == item.quantity
        totalPrice == BundleTotalPrice(item, pit, up)
        soilUnits == 4 * quantity
        concentrateUnits == 2 * quantity
        soilRetailTotal == soilUnits * soilRetailPrice
        totalRetailValue == soilRetailTotal + concentrateUnits * concentrateRetailPrice
        discountedSoilPrice == Round(soilRetailPrice * totalPrice, totalRetailValue, up)
        discountedConcentratePrice ==
            Round(concentrateRetailPrice * totalPrice, totalRetailValue, up)
        discountedTotal == discountedSoilPrice * soilUnits
                           + discountedConcentratePrice * concentrateUnits
        difference == totalPrice - discountedTotal
        soilAdjustment == Round(difference * soilRetailTotal,
                                totalRetailValue * soilUnits, up)
        finalSoilPrice == IF difference # 0 THEN discountedSoilPrice + soilAdjustment
                          ELSE discountedSoilPrice
    IN  << Row("4744278011219", soilUnits, finalSoilPrice),
           Row("4742022540022", concentrateUnits, discountedConcentratePrice) >>

\* the row of any other product: the subtotal per unit, or the unit price
RegularRow(item, pit, up) ==
    LET quantity == item.quantity
        price ==
            IF Has(item.subtotal) /\ quantity > 0
            THEN IF pit /\ Has(item.subtotal_tax)
                 THEN Round(item.subtotal[1] - item.subtotal_tax[1], quantity, up)
                 ELSE Round(item.subtotal[1], quantity, up)
            ELSE IF Has(item.price) /\ item.price[1] # 0
            THEN IF pit THEN Round(item.price[1] * 100, 100 + VatPct, up)
                 ELSE item.price[1]
            ELSE 0
    IN  << Row("item", quantity, price) >>

\* shipping as a row, unless it is free
ShippingRow(shipping, pit) ==
    LET total == IF Has(shipping.total) THEN shipping.total[1] ELSE 0
        shippingTotal == IF pit /\ Has(shipping.total_tax)
                         THEN total - shipping.total_tax[1] ELSE total
    IN  IF total <= 0 THEN <<>> ELSE << Row("Transport", 1, shippingTotal) >>

\* a coupon as a negative row, unless it is worth nothing
CouponRow(coupon, pit) ==
    LET discount == IF Has(coupon.discount) THEN coupon.discount[1] ELSE 0
        discountAmount == IF pit /\ Has(coupon.discount_tax)
                          THEN discount - coupon.discount_tax[1] ELSE discount
        abs == IF discountAmount < 0 THEN -discountAmount ELSE discountAmount
    IN  IF discount <= 0 THEN <<>> ELSE << Row("DISCOUNT", 1, -abs) >>

RECURSIVE Flatten(_)
\* the concatenation of a sequence of sequences
Flatten(lists) ==
    IF lists = <<>> THEN <<>> ELSE Head(lists) \o Flatten(Tail(lists))

\* rows.push for each element of list, f giving the rows of one element
FlatMap(list, f(_)) == Flatten([i \in DOMAIN list |-> f(list[i])])

prepareInvoiceRowsFromWooOrder(order, up) ==
    LET pit == order.prices_include_tax
    IN  FlatMap(order.line_items, LAMBDA item :
                    IF item.name = BundleName THEN BundleRows(item, pit, up)
                    ELSE RegularRow(item, pit, up))
        \o FlatMap(order.shipping_lines, LAMBDA shipping : ShippingRow(shipping, pit))
        \o FlatMap(order.coupon_lines, LAMBDA coupon : CouponRow(coupon, pit))

\* ------------------------------------------- services/merit.js: reconciler
RECURSIVE RowsTotal(_)
\* invoiceRows.reduce((sum, row) => sum + price * quantity, 0)
RowsTotal(rows) ==
    IF rows = <<>> THEN 0
    ELSE Head(rows).Price * Head(rows).Quantity + RowsTotal(Tail(rows))

\* rowsTotalRounded * VAT_RATE, to the cent
TaxOf(amount, up) == Round(amount * VatPct, 100, up)

RECURSIVE PredictedMeritTax(_, _)
\* Merit's tax: each row's tax rounded to the cent, then summed
PredictedMeritTax(rows, up) ==
    IF rows = <<>> THEN 0
    ELSE TaxOf(Head(rows).Price * Head(rows).Quantity, up)
         + PredictedMeritTax(Tail(rows), up)

\* a search that lets a later row of the same total replace the earlier one
LargestItemIndexLast(rows) ==
    LET total(i) == rows[i].Price * rows[i].Quantity
        best == {i \in DOMAIN rows :
                    /\ total(i) > 0
                    /\ \A j \in DOMAIN rows : total(j) <= total(i)}
    IN  IF best = {} THEN 0 ELSE CHOOSE i \in best : \A j \in best : j <= i

\* the index of the first row with the largest total above 0, or 0 (-1 in
\* the code) when no row has a positive total
LargestItemIndex(rows) ==
    LET total(i) == rows[i].Price * rows[i].Quantity
        best == {i \in DOMAIN rows :
                    /\ total(i) > 0
                    /\ \A j \in DOMAIN rows : total(j) <= total(i)}
    IN  IF best = {} THEN 0 ELSE CHOOSE i \in best : \A j \in best : i <= j

\* an adjustment that spreads the difference over the units of all rows
AdjustRowsSpread(rows, wooTotal, up) ==
    LET rowsTotalRounded == RowsTotal(rows)
        meritTotal == rowsTotalRounded + TaxOf(rowsTotalRounded, up)
        targetPreTaxTotal == Round(wooTotal * 100, 100 + VatPct, up)
        exactPreTaxDifference == targetPreTaxTotal - rowsTotalRounded
        units == LET RECURSIVE Units(_)
                     Units(k) == IF k = 0 THEN 0 ELSE rows[k].Quantity + Units(k - 1)
                 IN  Units(Len(rows))
    IN  IF wooTotal - meritTotal # 0 /\ units > 0
        THEN [i \in DOMAIN rows |->
                 [rows[i] EXCEPT !.Price = @ + Round(exactPreTaxDifference, units, up)]]
        ELSE rows

\* `if (totalDifference !== 0)`: the price of the largest row is moved so
\* that the rows add up to wooTotal / 1.22
AdjustRows(rows, wooTotal, up) ==
    LET rowsTotalRounded == RowsTotal(rows)
        meritTotal == rowsTotalRounded + TaxOf(rowsTotalRounded, up)
        largestItemIndex == LargestItemIndex(rows)
        targetPreTaxTotal == Round(wooTotal * 100, 100 + VatPct, up)
        exactPreTaxDifference == targetPreTaxTotal - rowsTotalRounded
        row == rows[largestItemIndex]
        adjustedItemTotal == row.Price * row.Quantity + exactPreTaxDifference
        adjustedPrice == Round(adjustedItemTotal, row.Quantity, up)
    IN  IF wooTotal - meritTotal # 0 /\ largestItemIndex > 0
        THEN [rows EXCEPT ![largestItemIndex].Price = adjustedPrice]
        ELSE rows

\* the rounding amount without the compensation for Merit's per-row tax
RoundingAmountUncompensated(wooTotal, expectedMeritTotal, taxDifference) ==
    wooTotal - expectedMeritTotal

\* roundingAmount: what is missing to the WooCommerce total, less the
\* difference between Merit's per-row tax and the tax on the rows total
RoundingAmount(wooTotal, expectedMeritTotal, taxDifference) ==
    (wooTotal - expectedMeritTotal) - taxDifference

\* the money fields of invoiceData, computed from the adjusted rows once
\* getNextInvoiceNumber has resolved
InvoiceData(order, invoiceRows, up) ==
    LET wooTotal == order.total
        exactRowsTotal == RowsTotal(invoiceRows)
        calculatedTaxAmount == TaxOf(exactRowsTotal, up)
        expectedMeritTotal == exactRowsTotal + calculatedTaxAmount
        taxDifference == PredictedMeritTax(invoiceRows, up) - calculatedTaxAmount
    IN  [InvoiceRow |-> invoiceRows,
         TotalAmount |-> exactRowsTotal,
         TaxAmount |-> calculatedTaxAmount,
         RoundingAmount |-> RoundingAmount(wooTotal, expectedMeritTotal, taxDifference),
         HComment |-> HCommentOf(order.id, BillingName(order.billing)),
         InvoiceNo |-> 0]

\* createInvoiceFromWooCommerceOrder up to its first await: an order whose
\* total is not above 0 is refused, for any other the rows are prepared and
\* adjusted
CreateInvoiceBuilds ==
    /\ sent.status = "new"
    /\ sent' = IF wooOrder.total <= 0
               THEN [status |-> "refused"]
               ELSE [status |-> "built",
                     invoice |-> [InvoiceRow |->
                         AdjustRows(prepareInvoiceRowsFromWooOrder(wooOrder, tieUp),
                                    wooOrder.total, tieUp)]]
    /\ UNCHANGED <<store, autoVars, schedVars, wooOrder, tieUp>>

\* getNextInvoiceNumber resolves; the totals and the rounding amount are
\* computed from the adjusted rows and createInvoice is called
CreateInvoiceNumbers(ok) ==
    /\ sent.status = "built"
    /\ sent' = [status |-> "numbered",
                invoice |-> [InvoiceData(wooOrder, sent.invoice.InvoiceRow, tieUp)
                                EXCEPT !.InvoiceNo = IF ok THEN getNextInvoiceNumber(merit)
                                                     ELSE ErrInvoiceNo]]
    /\ UNCHANGED <<store, autoVars, schedVars, wooOrder, tieUp>>

\* sendinvoice settles
CreateInvoiceSettles(ok) ==
    /\ sent.status = "numbered"
    /\ sent' = [sent EXCEPT !.status = IF ok THEN "sent" ELSE "failed"]
    /\ merit' = IF ok THEN Append(merit, Invoice(wooOrder.id, sent.invoice.InvoiceNo, 0))
                 ELSE merit
    /\ UNCHANGED <<store, autoSyncState, timers, runs, schedVars, wooOrder, tieUp>>

\* the requests and timer events that start an invocation
Starts ==
    \/ \E id \in 1..MaxOrders : AutoSyncStart(id)
    \/ \E t \in 1..MaxRuns : TimerFires(t)
    \/ \E id \in 1..MaxOrders : Webhook(id)
    \/ \E id \in 1..MaxOrders, inBody \in BOOLEAN : ManualCreate(id, inBody)

\* everything else: the store, the stop request, the steps of the invocations
Steps ==
    \/ \E s \in Statuses : CreateOrder(s)
    \/ AutoSyncStop
    \/ \E r \in 1..MaxRuns : FetchInvoicesOk(r)
    \/ \E r \in 1..MaxRuns : FetchInvoicesFails(r)
    \/ \E r \in 1..MaxRuns, ok \in BOOLEAN : BulkPage(r, ok)
    \/ \E r \in 1..MaxRuns : NewOrdersOk(r)
    \/ \E r \in 1..MaxRuns : NewOrdersFails(r)
    \/ \E r \in 1..MaxRuns, ok \in BOOLEAN : GetNumber(r, ok)
    \/ \E r \in 1..MaxRuns : SubmitOk(r)
    \/ \E r \in 1..MaxRuns : SubmitFails(r)
    \/ \E r \in 1..MaxRuns : DelayEnds(r)
    \/ \E r \in 1..MaxRuns, ok \in BOOLEAN : ManualOrder(r, ok)

Next == Starts \/ Steps

\* the steps of the syncOrdersToInvoices invocations
SyncSteps ==
    \/ \E s \in 1..MaxSyncs : SyncOrdersOk(s)
    \/ \E s \in 1..MaxSyncs : SyncOrdersFails(s)
    \/ \E s \in 1..MaxSyncs, ok \in BOOLEAN : SyncOrderDetail(s, ok)

\* scheduler.js and POST /api/woocommerce-sync, any interleaving
SchedNext ==
    \/ \E st \in Statuses : CreateOrder(st)
    \/ \E after \in 0..MaxOrders : CronTick(after)
    \/ \E after \in 0..MaxOrders : ManualSync(after)
    \/ SyncSteps

SchedSpec == Init /\ [][SchedNext]_vars

Spec == Init /\ [][Next]_vars

\* The same handlers when no invocation starts while another is in flight:
\* the runs follow one another.
Idle == \A r \in DOMAIN runs : ~Active(r)

Room == Len(runs) + Len(syncs) < MaxRuns

NoSync == \A s \in DOMAIN syncs : ~InBody(s)

SeqNext ==
    \/ \E id \in 1..MaxOrders : Idle /\ NoSync /\ Room /\ AutoSyncStart(id)
    \/ \E t \in 1..MaxRuns : Idle /\ NoSync /\ Room /\ TimerFires(t)
    \/ \E id \in 1..MaxOrders : Idle /\ NoSync /\ Room /\ Webhook(id)
    \/ \E id \in 1..MaxOrders, inBody \in BOOLEAN :
           Idle /\ NoSync /\ Room /\ ManualCreate(id, inBody)
    \/ \E after \in 0..MaxOrders : Idle /\ NoSync /\ Room /\ CronTick(after)
    \/ \E after \in 0..MaxOrders : Idle /\ NoSync /\ Room /\ ManualSync(after)
    \/ Steps
    \/ SyncSteps

SeqSpec == Init /\ [][SeqNext]_vars

\* ---------------------------------------------------- the orders reconciled
\* One line item of gross amount g for quantity units, with the fields
\* WooCommerce sends ("woo"), without the tax fields ("plain"), with the
\* unit price alone ("price") or with no amount at all ("bare").
Item(name, quantity, form, g) ==
    [name |-> name, quantity |-> quantity,
     subtotal |-> IF form \in {"woo", "plain"} THEN <<g>> ELSE <<>>,
     subtotal_tax |-> IF form = "woo" THEN <<Round(g * VatPct, 100, TRUE)>> ELSE <<>>,
     total |-> IF form \in {"woo", "plain"} THEN <<g>> ELSE <<>>,
     total_tax |-> IF form = "woo" THEN <<Round(g * VatPct, 100, TRUE)>> ELSE <<>>,
     price |-> IF form \in {"woo", "price"} THEN <<g>> ELSE <<>>]

ItemAmounts == {225, 1000}

Items ==
    {Item(name, quantity, form, g) :
        name \in {BundleName, "Biohuumus 5 l Ussimo"}, quantity \in 1..MaxQuantity,
        form \in {"woo", "plain", "price", "bare"}, g \in ItemAmounts}

SeqsUpTo(S, n) == UNION {[1..k -> S] : k \in 0..n}

ShippingLines ==
    {<<>>, <<[total |-> <<399>>, total_tax |-> <<72>>]>>, <<[total |-> <<0>>, total_tax |-> <<>>]>>,
     <<[total |-> <<50>>, total_tax |-> <<50>>]>>}

CouponLines ==
    {<<>>, <<[discount |-> <<100>>, discount_tax |-> <<18>>]>>,
     <<[discount |-> <<100>>, discount_tax |-> <<100>>]>>}

Totals == {0, 1000, 1251, 2745}

WooOrders ==
    [id : {1}, total : Totals, prices_include_tax : BOOLEAN,
     billing : {[first_name |-> <<"A">>, last_name |-> <<"B">>]},
     line_items : SeqsUpTo(Items, MaxLines),
     shipping_lines : ShippingLines, coupon_lines : CouponLines]

\* createInvoiceFromWooCommerceOrder is called with some order
ReconInit ==
    /\ store = <<>>
    /\ merit = <<>>
    /\ autoSyncState = [isRunning |-> FALSE, startOrderId |-> 0,
                        currentOrderId |-> 0, lastSyncTime |-> 0,
                        intervalId |-> 0]
    /\ timers = {}
    /\ runs = <<>>
    /\ isSyncing = FALSE
    /\ processedOrders = {}
    /\ lastSyncTime = 0
    /\ syncs = <<>>
    /\ wooOrder \in WooOrders
    /\ sent = [status |-> "new"]
    /\ tieUp \in BOOLEAN

ReconNext ==
    \/ CreateInvoiceBuilds
    \/ \E ok \in BOOLEAN : CreateInvoiceNumbers(ok)
    \/ \E ok \in BOOLEAN : CreateInvoiceSettles(ok)

ReconSpec == ReconInit /\ [][ReconNext]_vars

\* ---------------------------------------------------- comment round trip
\* first and last names of billing contacts: plain, padded with white
\* space, empty, and holding '#' and digits
FirstNames == {<<"M", "a">>, <<" ", "M">>, <<>>, <<"#", "7">>}

LastNames == {<<"T">>, <<"T", " ">>, <<>>, <<"U", "s", "s", "i", "m", "o", " ", "#", "9", " ", "x">>}

OrderIds == {7, 42, 1736}

\* orders that differ in their id and their billing contact
CommentOrders ==
    [id : OrderIds, total : {1000}, prices_include_tax : {FALSE},
     billing : [first_name : FirstNames, last_name : LastNames],
     line_items : {<<Item("Biohuumus 5 l Ussimo", 1, "woo", 1000)>>},
     shipping_lines : {<<>>}, coupon_lines : {<<>>}]

\* createInvoiceFromWooCommerceOrder is called with one of these orders
CommentInit ==
    /\ store = <<>>
    /\ merit = <<>>
    /\ autoSyncState = [isRunning |-> FALSE, startOrderId |-> 0,
                        currentOrderId |-> 0, lastSyncTime |-> 0,
                        intervalId |-> 0]
    /\ timers = {}
    /\ runs = <<>>
    /\ isSyncing = FALSE
    /\ processedOrders = {}
    /\ lastSyncTime = 0
    /\ syncs = <<>>
    /\ wooOrder \in CommentOrders
    /\ sent = [status |-> "new"]
    /\ tieUp \in BOOLEAN

CommentSpec == CommentInit /\ [][ReconNext]_vars

\* ------------------------------------------------------------------ claims
Range(s) == {s[i] : i \in DOMAIN s}

\* the order number an invoice carries in its comment
OrderNoOf(inv) == extractOrderNumberFromHComment(inv.HComment)

\* the invoices Merit holds for order id
InvoicesFor(id) == {i \in DOMAIN merit : OrderNoOf(merit[i]) = toStr(id)}

FinishedBatch(r) == IsBatch(r) /\ runs[r].pc = "done"

\* C1: every invoice createInvoiceFromWooCommerceOrder builds and submits
\* satisfies, in whole cents: rows total + per-row tax (each row's tax
\* rounded to the cent, then summed) + RoundingAmount = the order's total.
C1_ExactReconciliation ==
    sent.status \in {"numbered", "sent", "failed"}
        => RowsTotal(sent.invoice.InvoiceRow)
           + PredictedMeritTax(sent.invoice.InvoiceRow, tieUp)
           + sent.invoice.RoundingAmount = wooOrder.total

\* an invoice was submitted whose per-row tax differs from the tax on its
\* rows total and whose rounding amount is not zero
C1_Witness ==
    /\ sent.status = "sent"
    /\ PredictedMeritTax(sent.invoice.InvoiceRow, tieUp)
           # TaxOf(RowsTotal(sent.invoice.InvoiceRow), tieUp)
    /\ sent.invoice.RoundingAmount # 0

\* C2: under any interleaving of the bulk run and the periodic runs, at most
\* one invoice is ever submitted by auto-sync for any order id.
C2_OneInvoicePerOrder ==
    \A id \in DOMAIN store :
        Cardinality({i \in InvoicesFor(id) : IsBatch(merit[i].by)}) <= 1

\* C3 as stated: when runs follow one another and only batch runs submit, an
\* order id that occurred twice in a finished batch has exactly one invoice.
C3_ExactlyOneInvoice ==
    \A r \in DOMAIN runs :
        (FinishedBatch(r) /\ runs[r].err = "none" /\ \A q \in DOMAIN runs : IsBatch(q))
            => \A k1, k2 \in DOMAIN runs[r].all :
                   (k1 < k2 /\ runs[r].all[k1] = runs[r].all[k2])
                       => Cardinality(InvoicesFor(runs[r].all[k1])) = 1

\* C3 as amended: when runs follow one another, a batch run never submits an
\* invoice for an order id that an earlier invoice already carries, so batch
\* runs submit at most one invoice per order id (none when every attempt fails).
C3_NoDuplicateByBatchRun ==
    \A j \in DOMAIN merit :
        IsBatch(merit[j].by)
            => \A i \in 1..(j - 1) : OrderNoOf(merit[i]) # OrderNoOf(merit[j])

\* an order id occurs twice in the batch of a finished run, which attempted
\* it once and skipped it the second time: it has one invoice
C3_Witness ==
    \E r \in DOMAIN runs :
        /\ FinishedBatch(r)
        /\ \E k1, k2 \in DOMAIN runs[r].all :
               /\ k1 < k2
               /\ runs[r].all[k1] = runs[r].all[k2]
               /\ k1 \in Range(runs[r].processed)
               /\ k2 \notin Range(runs[r].processed)
               /\ Cardinality(InvoicesFor(runs[r].all[k1])) = 1

\* C4: on every entry point an order whose id an existing invoice carries is
\* skipped: when invocations follow one another, no second invoice is
\* submitted for an order id.
C4_NoSecondInvoice ==
    \A j \in DOMAIN merit :
        \A i \in 1..(j - 1) : OrderNoOf(merit[i]) # OrderNoOf(merit[j])

\* a batch run takes up an order (createInvoiceFromWooCommerceOrder is entered
\* for it) or a periodic run starts, in this step
TakesUpWork(r) ==
    /\ runs'[r].kind \in {"bulk", "periodic"}
    /\ \/ r \notin DOMAIN runs /\ runs'[r].kind = "periodic"
       \/ /\ runs'[r].pc = "num"
          /\ r \in DOMAIN runs => runs[r].pc # "num"

\* C5: at no moment are two syncOrdersToInvoices invocations both past the
\* isSyncing guard and in the fetch/process body.
C5_AtMostOneInBody ==
    Cardinality({s \in DOMAIN syncs : InBody(s)}) <= 1

\* C6: a syncOrdersToInvoices request that arrives while isSyncing is set
\* ends with the outcome 'skipped' at once and leaves processedOrders alone;
\* a skipped request has fetched no orders, attempted no order and counted
\* nothing.
C6_SkippedDoesNothing ==
    [][/\ (isSyncing /\ Len(syncs') > Len(syncs))
           => /\ syncs'[Len(syncs')].status = "skipped"
              /\ processedOrders' = processedOrders
       /\ \A s \in DOMAIN syncs' :
              syncs'[s].status = "skipped"
                  => /\ syncs'[s].pc = "done"
                     /\ syncs'[s].orders = <<>>
                     /\ syncs'[s].attempted = <<>>
                     /\ syncs'[s].results = NoResults]_vars

\* a request was skipped while an invocation is in flight and the store
\* holds a completed order that is not yet processed
C6_Witness ==
    /\ \E s \in DOMAIN syncs : syncs[s].status = "skipped"
    /\ \E q \in DOMAIN syncs : InBody(q)
    /\ \E id \in DOMAIN store :
           store[id].status = "completed" /\ id \notin processedOrders

\* C7: while auto-sync is stopped (from a successful stop to the next
\* successful start) no batch run takes up a further order and no periodic
\* run starts.
C7_StoppedTakesUpNothing ==
    [][(~autoSyncState.isRunning /\ ~autoSyncState'.isRunning)
          => \A r \in DOMAIN runs' : ~TakesUpWork(r)]_vars

\* C8: a bulk or periodic run whose fetch of the existing invoices failed
\* has its error recorded, takes up no order and submits no invoice.
C8_InvoiceListFailureAborts ==
    \A r \in DOMAIN runs :
        (IsBatch(r) /\ runs[r].err = "invoices")
            => /\ runs[r].pc = "done"
               /\ runs[r].processed = <<>>
               /\ \A i \in DOMAIN merit : merit[i].by # r

\* such a run, with an order in the store it would otherwise have invoiced
C8_Witness ==
    \E r \in DOMAIN runs :
        /\ IsBatch(r)
        /\ runs[r].err = "invoices"
        /\ \E id \in DOMAIN store :
               /\ store[id].status = "completed"
               /\ InvoicesFor(id) = {}

\* C9: in a bulk run, a periodic run and a scheduler sync, an order whose
\* processing throws does not end the run: every order of the batch before
\* the one in flight (every order, once the loop has ended) was attempted
\* or had its invoice (was in processedOrders), and the run does not fail
\* because of an order.
C9_FailureIsolation ==
    /\ \A r \in DOMAIN runs :
           IsBatch(r)
               => /\ runs[r].err # "create"
                  /\ \A k \in DOMAIN runs[r].all :
                         (k < runs[r].idx \/ (runs[r].pc = "done" /\ runs[r].err = "none"))
                             => \/ k \in Range(runs[r].processed)
                                \/ InvoicesFor(runs[r].all[k]) # {}
    /\ \A s \in DOMAIN syncs :
           /\ syncs[s].status = "failed" => syncs[s].attempted = <<>>
           /\ \A k \in DOMAIN syncs[s].orders :
                  (k < syncs[s].idx \/ syncs[s].status = "completed")
                      => \/ k \in Range(syncs[s].attempted)
                         \/ syncs[s].orders[k] \in processedOrders

\* a batch run whose first order failed attempted its second order, and so
\* did a scheduler sync
C9_Witness ==
    /\ \E r \in DOMAIN runs :
           /\ IsBatch(r)
           /\ Len(runs[r].all) = 2
           /\ runs[r].processed = <<1, 2>>
           /\ InvoicesFor(runs[r].all[1]) = {}
    /\ \E s \in DOMAIN syncs :
           /\ Len(syncs[s].orders) = 2
           /\ syncs[s].attempted = <<1, 2>>
           /\ syncs[s].results.failed >= 1
           /\ syncs[s].orders[1] \notin processedOrders

\* C10: the invoices one batch run submits are submitted in strictly
\* ascending order id.
C10_AscendingSubmissions ==
    \A i, j \in DOMAIN merit :
        (i < j /\ merit[i].by = merit[j].by /\ IsBatch(merit[i].by))
            => \E a, b \in DOMAIN store :
                   /\ OrderNoOf(merit[i]) = toStr(a)
                   /\ OrderNoOf(merit[j]) = toStr(b)
                   /\ a < b

\* C11: when the invocations follow one another, the invoices one batch run
\* submits with looked-up numbers carry strictly increasing invoice numbers,
\* in the order of their submission.
C11_MonotonicNumbers ==
    \A i, j \in DOMAIN merit :
        (/\ i < j
         /\ merit[i].by = merit[j].by
         /\ IsBatch(merit[i].by)
         /\ merit[i].InvoiceNo # ErrInvoiceNo
         /\ merit[j].InvoiceNo # ErrInvoiceNo)
            => merit[i].InvoiceNo < merit[j].InvoiceNo

\* a batch run has submitted two invoices, both with looked-up numbers, the
\* later lookup finding the earlier invoice in the list
C11_Witness ==
    \E i, j \in DOMAIN merit :
        /\ i < j
        /\ merit[i].by = merit[j].by
        /\ IsBatch(merit[i].by)
        /\ merit[i].InvoiceNo = StartInvoiceNo
        /\ merit[j].InvoiceNo = StartInvoiceNo + 1

\* the numeric invoice numbers Merit holds
NumericInvoiceNos == {merit[i].InvoiceNo : i \in DOMAIN merit} \ {ErrInvoiceNo}

C13_DelayBetweenSubmissions ==
    [][\A r \in DOMAIN runs :
          (IsBatch(r) /\ runs[r].pc = "submit")
              => runs'[r].pc \in {"submit", "delay", "done"}]_vars

\* C14: every invoice submitted by the order webhook, a bulk run or a
\* periodic run is for an order whose status is a qualifying one
\* (completed or processing).
C14_OnlyQualifyingStatuses ==
    \A i \in DOMAIN merit :
        (/\ merit[i].by \in DOMAIN runs
         /\ runs[merit[i].by].kind \in {"webhook", "bulk", "periodic"})
            => \E id \in DOMAIN store :
                  /\ OrderNoOf(merit[i]) = toStr(id)
                  /\ store[id].status \in validStatuses

\* createInvoiceFromWooCommerceOrder has got past the check of the total
\* and has prepared the rows
RowsPrepared == sent.status \in {"built", "numbered", "sent", "failed"}

\* C15: the two rows that replace a 'Toataimede Uus Algus' line add up to
\* the pre-tax price of the package line, to the cent:
\* 4Q x soil price + 2Q x concentrate price = B.
C15_BundleConservation ==
    RowsPrepared =>
        \A k \in DOMAIN wooOrder.line_items :
            LET item == wooOrder.line_items[k]
                pit == wooOrder.prices_include_tax
            IN  item.name = BundleName
                    => RowsTotal(BundleRows(item, pit, tieUp))
                           = BundleTotalPrice(item, pit, tieUp)

\* C16: with prices_include_tax, a regular line whose tax-inclusive amount
\* P comes without a tax field gets the pre-tax unit price
\* round(P / 1.22 / quantity) for a subtotal and round(P / 1.22) for a unit
\* price.
C16_TaxInclusiveNormalization ==
    (RowsPrepared /\ wooOrder.prices_include_tax) =>
        \A k \in DOMAIN wooOrder.line_items :
            LET item == wooOrder.line_items[k]
                price == RegularRow(item, TRUE, tieUp)[1].Price
            IN  item.name # BundleName
                    => /\ (Has(item.subtotal) /\ ~Has(item.subtotal_tax))
                            => price = Round(item.subtotal[1] * 100,
                                             (100 + VatPct) * item.quantity, tieUp)
                       /\ (~Has(item.subtotal) /\ Has(item.price))
                            => price = Round(item.price[1] * 100, 100 + VatPct, tieUp)

\* C17: for an order that yields no invoice row and has a total other than
\* zero no invoice is submitted.
C17_NoRowsIsAnError ==
    (/\ prepareInvoiceRowsFromWooOrder(wooOrder, tieUp) = <<>>
     /\ wooOrder.total # 0)
        => sent.status # "sent"

\* C18: an order with the total 0.00 that yields no invoice row is not
\* refused; its invoice has the rows total, the tax and the rounding amount
\* zero.
C18_ZeroTotalAccepted ==
    (/\ prepareInvoiceRowsFromWooOrder(wooOrder, tieUp) = <<>>
     /\ wooOrder.total = 0
     /\ sent.status # "new")
        => /\ sent.status # "refused"
           /\ sent.invoice.TotalAmount = 0
           /\ sent.invoice.TaxAmount = 0
           /\ sent.invoice.RoundingAmount = 0

\* the rows as prepareInvoiceRowsFromWooOrder hands them to the reconciler
NormalizedRows == prepareInvoiceRowsFromWooOrder(wooOrder, tieUp)

\* totalDifference: the order's total less the rows total with its tax
InitialDifference(rows) ==
    wooOrder.total - (RowsTotal(rows) + TaxOf(RowsTotal(rows), tieUp))

\* the rows of the invoice whose price is not the normalizer's
ChangedRows(rows) ==
    {i \in DOMAIN rows : sent.invoice.InvoiceRow[i].Price # rows[i].Price}

\* C19: the invoice has the normalizer's rows with the price of at most one
\* of them changed; the code, quantity and tax class of every row are the
\* normalizer's; with an initial difference of zero no row is changed.
C19_SingleLineAdjustment ==
    RowsPrepared =>
        LET rows == NormalizedRows
        IN  /\ Len(sent.invoice.InvoiceRow) = Len(rows)
            /\ \A i \in DOMAIN rows :
                  /\ sent.invoice.InvoiceRow[i].Code = rows[i].Code
                  /\ sent.invoice.InvoiceRow[i].Quantity = rows[i].Quantity
                  /\ sent.invoice.InvoiceRow[i].TaxId = rows[i].TaxId
            /\ Cardinality(ChangedRows(rows)) <= 1
            /\ InitialDifference(rows) = 0 => sent.invoice.InvoiceRow = rows

\* an invoice of three rows or more was submitted with the price of exactly
\* one row changed
C19_Witness ==
    /\ sent.status = "sent"
    /\ LET rows == NormalizedRows
       IN  Len(rows) >= 3 /\ Cardinality(ChangedRows(rows)) = 1

\* unitPrice x quantity of row i
RowTotal(rows, i) == rows[i].Price * rows[i].Quantity

\* the first row, in row order, among those of the largest total
FirstLargest(rows) ==
    CHOOSE i \in DOMAIN rows :
        /\ \A j \in DOMAIN rows : RowTotal(rows, j) <= RowTotal(rows, i)
        /\ \A j \in DOMAIN rows : j < i => RowTotal(rows, j) < RowTotal(rows, i)

\* the unit price that takes the rows total to wooTotal / 1.22 when row i
\* carries the whole difference
PriceToTarget(rows, i) ==
    Round(RowTotal(rows, i) + Round(wooOrder.total * 100, 100 + VatPct, tieUp)
              - RowsTotal(rows),
          rows[i].Quantity, tieUp)

\* row `first` carries the adjusted price and no other row is changed
OnlyAdjusted(rows, first) ==
    /\ ChangedRows(rows) \subseteq {first}
    /\ sent.invoice.InvoiceRow[first].Price = PriceToTarget(rows, first)

PreTax(amount, tax, pit) ==
    LET a == IF Has(amount) THEN amount[1] ELSE 0
    IN  IF pit /\ Has(tax) THEN a - tax[1] ELSE a

\* C21: a shipping line gets a row exactly when its amount after the
\* removal of tax is above zero, so no 'Transport' row has a price of zero
\* or less.
C21_ShippingRows ==
    RowsPrepared =>
        /\ \A k \in DOMAIN wooOrder.shipping_lines :
              LET shipping == wooOrder.shipping_lines[k]
                  pit == wooOrder.prices_include_tax
              IN  (ShippingRow(shipping, pit) # <<>>)
                      <=> (PreTax(shipping.total, shipping.total_tax, pit) > 0)
        /\ LET rows == NormalizedRows
           IN  \A i \in DOMAIN rows : rows[i].Code = "Transport" => rows[i].Price > 0

\* C22: a coupon line gets a row exactly when its discount after the removal
\* of tax is above zero, the price of the row is that amount negated, and so
\* every 'DISCOUNT' row has a price below zero.
C22_DiscountRows ==
    RowsPrepared =>
        /\ \A k \in DOMAIN wooOrder.coupon_lines :
              LET coupon == wooOrder.coupon_lines[k]
                  pit == wooOrder.prices_include_tax
                  amount == PreTax(coupon.discount, coupon.discount_tax, pit)
              IN  /\ (CouponRow(coupon, pit) # <<>>) <=> (amount > 0)
                  /\ CouponRow(coupon, pit) # <<>>
                        => CouponRow(coupon, pit)[1].Price = -amount
        /\ LET rows == NormalizedRows
           IN  \A i \in DOMAIN rows : rows[i].Code = "DISCOUNT" => rows[i].Price < 0

\* C23: createInvoiceFromWooCommerceOrder is never suspended with the
\* reconciliation begun and not ended: at every await after the rows total
\* has been computed, the rounding amount has been computed too.
C23_ReconciliationUninterrupted ==
    RowsPrepared => "RoundingAmount" \in DOMAIN sent.invoice

\* C24: the comment of every invoice createInvoiceFromWooCommerceOrder
\* builds is parsed back by extractOrderNumberFromHComment to the id of the
\* order and by extractCustomerNameFromHComment to the trimmed name of its
\* billing contact.
C24_CommentRoundTrip ==
    sent.status \in {"numbered", "sent", "failed"}
        => /\ extractOrderNumberFromHComment(sent.invoice.HComment) = toStr(wooOrder.id)
           /\ extractCustomerNameFromHComment(sent.invoice.HComment)
                  = Trim(BillingName(wooOrder.billing))

\* an invoice was submitted for an order of a four-digit id whose contact
\* has a first name that starts with white space and a last name that
\* holds 'Ussimo #9 x'
C24_Witness ==
    /\ sent.status = "sent"
    /\ wooOrder.id = 1736
    /\ wooOrder.billing.first_name = <<" ", "M">>
    /\ Len(wooOrder.billing.last_name) > 2
    /\ extractCustomerNameFromHComment(sent.invoice.HComment)
           # BillingName(wooOrder.billing)

\* C25: while a syncOrdersToInvoices invocation is past the guard and has
\* not finished, isSyncing is true.
C25_GuardFlagAccuracy ==
    (\E s \in DOMAIN syncs : InBody(s)) => isSyncing

\* C26: no two submitted invoices that carry a looked-up number carry the
\* same InvoiceNo, whatever the interleaving of the creations.
C26_UniqueInvoiceNumbers ==
    \A i, j \in DOMAIN merit :
        (i # j /\ merit[i].InvoiceNo # ErrInvoiceNo)
            => merit[i].InvoiceNo # merit[j].InvoiceNo

\* C28: at most one periodic timer is active and autoSyncState.intervalId
\* refers to it; while auto-sync is stopped no timer is active.
C28_SinglePeriodicTimer ==
    /\ Cardinality(timers) <= 1
    /\ timers # {} => timers = {autoSyncState.intervalId}
    /\ ~autoSyncState.isRunning => timers = {}

\* C29: the results a syncOrdersToInvoices invocation returns have total
\* equal to the number of fetched orders, total = processed + skipped and
\* processed = succeeded + failed; the attempted orders are the processed
\* ones and every other fetched order is a skipped one.
C29_ResultCounters ==
    \A s \in DOMAIN syncs :
        syncs[s].status = "completed"
            => LET res == syncs[s].results
               IN  /\ res.total = Len(syncs[s].orders)
                   /\ res.total = res.processed + res.skipped
                   /\ res.processed = res.succeeded + res.failed
                   /\ res.processed = Len(syncs[s].attempted)
                   /\ res.skipped = Len(syncs[s].orders) - Len(syncs[s].attempted)

\* an invocation returned results that count a skipped and a failed order
C29_Witness ==
    \E s \in DOMAIN syncs :
        /\ syncs[s].status = "completed"
        /\ syncs[s].results.total = 2
        /\ syncs[s].results.skipped = 1
        /\ syncs[s].results.failed = 1

\* invocation s has the detail of an order in flight
AtDetail(s) == s \in DOMAIN syncs /\ syncs[s].pc = "detail"

\* the id of the order invocation s has in flight
InFlight(s) == syncs[s].orders[syncs[s].idx]

\* in this step invocation s has transformed the order it had in flight
Transforms(s) ==
    /\ AtDetail(s)
    /\ syncs'[s].results.succeeded = syncs[s].results.succeeded + 1

\* in this step invocation s starts to fetch the detail of an order
FetchesDetail(s) ==
    /\ s \in DOMAIN syncs'
    /\ syncs'[s].pc = "detail"
    /\ Len(syncs'[s].attempted) > (IF s \in DOMAIN syncs THEN Len(syncs[s].attempted) ELSE 0)

\* C30: processedOrders grows only by the id of an order whose processing
\* has just succeeded, a failed order is not added, and an order whose id
\* is in processedOrders is neither fetched in detail nor transformed again.
C30_ProcessedOrderCache ==
    [][/\ \/ processedOrders' = processedOrders
          \/ \E s \in 1..MaxSyncs :
                /\ Transforms(s)
                /\ processedOrders' = processedOrders \cup {InFlight(s)}
       /\ \A s \in 1..MaxSyncs :
             /\ Transforms(s) => InFlight(s) \notin processedOrders
             /\ FetchesDetail(s)
                   => syncs'[s].orders[syncs'[s].idx] \notin processedOrders']_vars

\* in this step periodic run r ends
PeriodicEnds(r) ==
    /\ r \in DOMAIN runs
    /\ runs[r].kind = "periodic"
    /\ runs[r].pc # "done"
    /\ runs'[r].pc = "done"

\* C27: a periodic run that ends while auto-sync is running leaves every
\* order that was created after lastSyncTime, is not cancelled and has no
\* invoice within the reach of the next periodic run: the order is still
\* after the lastSyncTime the run leaves behind.
C27_NoOrderLost ==
    [][\A r \in 1..MaxRuns :
          (PeriodicEnds(r) /\ autoSyncState.isRunning)
              => \A id \in DOMAIN store :
                    (/\ id > autoSyncState.lastSyncTime
                     /\ store[id].status # "cancelled"
                     /\ \A i \in DOMAIN merit' : OrderNoOf(merit'[i]) # toStr(id))
                        => id > autoSyncState'.lastSyncTime]_vars
====
